---------------------------- MODULE Spec2Model ----------------------------
(***************************************************************************)
(* Model of the pump polling service:                                      *)
(*   - the one-byte wire codec and the address scanner (scanner.py),       *)
(*   - the subscriber hub and the per-connection tick loop (ws_pumps.py).  *)
(* Six specifications share the module: SpecCodec and SpecPrice apply the  *)
(* pure functions to bounded inputs, SpecScan runs scanner.main() against  *)
(* a nondeterministic serial bus, SpecHub runs the websocket handlers,     *)
(* SpecAgg runs the per-pump body of a tick over the caches, and SpecTick  *)
(* runs the pump loop of one tick.                                         *)
(***************************************************************************)
EXTENDS Integers, Sequences, FiniteSets, TLC

VARIABLES
    \* ---- codec calls (SpecCodec)
    c_op,              \* the function applied last
    c_arg,             \* its argument
    c_res,             \* what it returned or raised
    \* ---- scanner.main() (SpecScan)
    address_range,     \* ADDRESS_RANGE, <<lo, hi>>
    s_pc,              \* position in main()
    pump_address,      \* the for loop's variable
    command,           \* the command byte string built for pump_address
    response,          \* what ser.read(1) returned last
    discovered_pumps,  \* the list of discovered pump records
    s_log,             \* per address, the branch of the probe that was logged
    bus,               \* the calls made on the serial port, in order
    ser_open,          \* whether the serial port is open
    s_exc,             \* the exception propagating out of the loop, if any
    \* ---- hub and handlers (SpecHub)
    clients,           \* Hub.clients
    h_pc,              \* per connection: where its pumps_socket handler is suspended
    h_exit,            \* per connection: how its handler ended
    tick_exc,          \* per handler: what its loop's except clause caught last
    b_ts,              \* per handler: "ts" of the frame of its broadcast
    b_targets,         \* per handler: self.clients.copy() of its broadcast
    b_idx,             \* per handler: index of the send being awaited
    b_failed,          \* per handler: disconnected_clients of its broadcast
    b_sent,            \* per handler: the sockets its broadcast delivered to
    left_mid,          \* per handler: a target left the registry while it was suspended
    returned,          \* the broadcast that returned last: its locals at the return
    broken,            \* connections on which send_json raises
    nframes,           \* frames built so far (the clock get_frame reads)
    slept,             \* per handler: TICK has elapsed since its sleep began
    bcasts_in_tick,    \* broadcasts started in this TICK interval
    late,              \* per handler: the sockets appended while it was suspended in a send
    nfaults,           \* faults injected so far
    \* ---- the per-pump body of a tick (SpecAgg)
    meta,              \* meta[pid]: absent, or its price_per_unit and grade
    last_live,         \* last_live[pid]: absent, or the live value cached
    last_tx,           \* last_tx[pid]: absent, or the final receipt cached
    st_status,         \* st.status of the pass made last
    live_val,          \* what pm.get_realtime(pid) did in that pass
    tx_read,           \* what the read of the pump's receipt did in that pass
    item,              \* the record that pass appended to frame["pumps"]
    \* ---- the pump loop of one tick (SpecTick)
    pump_statuses,     \* the pumps the tick iterates over, in order
    t_pc,              \* position in the tick
    t_todo,            \* the pumps the for loop has not reached yet
    frame_pumps,       \* frame["pumps"]: the pumps whose record was appended
    t_out,             \* per pump: where its pass raised, if it did
    t_exc,             \* what the except clause of the tick caught, if anything
    t_bcasts           \* calls of hub.broadcast made by the tick

codec_vars == <<c_op, c_arg, c_res>>
scan_vars  == <<address_range, s_pc, pump_address, command, response,
                discovered_pumps, s_log, bus, ser_open, s_exc>>
hub_vars   == <<clients, h_pc, h_exit, tick_exc, b_ts, b_targets, b_idx, b_failed,
                b_sent, left_mid, returned, broken, nframes, slept,
                bcasts_in_tick, late, nfaults>>
agg_vars   == <<meta, last_live, last_tx, st_status, live_val, tx_read, item>>
tick_vars  == <<pump_statuses, t_pc, t_todo, frame_pumps, t_out, t_exc, t_bcasts>>
vars       == <<codec_vars, scan_vars, hub_vars, agg_vars, tick_vars>>

-----------------------------------------------------------------------------
(* Bounds of the model.                                                    *)

\* integer arguments handed to the codec range over -MaxInt .. MaxInt
MaxInt == 20
\* the scanned range lies within 1 .. MaxAddress
MaxAddress == 17
\* the scanned range holds at most MaxRangeLen addresses
MaxRangeLen == 2
\* websocket connections 1 .. NumClients
NumClients == 2
\* frames built in one run
MaxFrames == 3
\* faults injected in one run: a failed handshake, a tick that raises, a
\* cancelled handler, a peer that goes away
MaxFaults == 1
\* byte strings handed to parse_status_response hold at most MaxRespLen bytes
MaxRespLen == 2
\* prices handed to fix_price range over -MaxInt .. MaxPrice
MaxPrice == 100010
\* live values 0 .. MaxLive, in ten-thousandths, besides the sampled ones
MaxLive == 6
\* a tick iterates over at most NumPumps pumps
NumPumps == 3

-----------------------------------------------------------------------------
(* Results of a call: a value returned or an exception raised.             *)

Ret(v)   == [ok |-> TRUE,  val |-> v, exc |-> "none"]
Raise(e) == [ok |-> FALSE, val |-> 0, exc |-> e]

-----------------------------------------------------------------------------
(* scanner.py: constants and the codec.                                    *)

CMD_STATUS == 0

Byte == 0 .. 255

\* pump_id_to_nibble with the pump_id == 16 branch left out
pump_id_to_nibble_no16(pump_id) ==
    IF 1 <= pump_id /\ pump_id <= 15 THEN Ret(pump_id)
    ELSE Raise("ValueError")

\* pump_id_to_nibble coercing every integer with % 16 instead of raising
pump_id_to_nibble_mod(pump_id) ==
    Ret(pump_id % 16)

pump_id_to_nibble(pump_id) ==
    IF pump_id = 16 THEN Ret(0)
    ELSE IF 1 <= pump_id /\ pump_id <= 15 THEN Ret(pump_id)
    ELSE Raise("ValueError")

nibble_to_pump_id(nibble) ==
    IF nibble = 0 THEN Ret(16)
    ELSE IF 1 <= nibble /\ nibble <= 15 THEN Ret(nibble)
    ELSE Raise("ValueError")

\* (CMD_STATUS << 4) | pump_nibble : the shifted code has its low four bits
\* clear and the nibble is below 16, so the bitwise or is the sum
build_status_command(pump_id) ==
    LET n == pump_id_to_nibble(pump_id)
    IN  IF n.ok THEN Ret(<< (CMD_STATUS * 16) + n.val >>) ELSE n

\* parse_status_response taking the status from the low nibble and the pump
\* nibble from the high one
parse_status_response_swapped(resp) ==
    IF Len(resp) # 1 THEN Raise("ValueError")
    ELSE LET word        == resp[1]
             status      == word % 16
             pump_nibble == (word \div 16) % 16
             pid         == nibble_to_pump_id(pump_nibble)
         IN  IF pid.ok THEN Ret(<< pid.val, status >>) ELSE pid

\* parse_status_response without the length test: the first byte is parsed,
\* an empty string is read as a zero byte
parse_status_response_lenient(resp) ==
    LET word        == IF Len(resp) = 0 THEN 0 ELSE resp[1]
        status      == (word \div 16) % 16
        pump_nibble == word % 16
        pid         == nibble_to_pump_id(pump_nibble)
    IN  IF pid.ok THEN Ret(<< pid.val, status >>) ELSE pid

\* response is a byte string: a sequence of values in Byte
parse_status_response(resp) ==
    IF Len(resp) # 1 THEN Raise("ValueError")
    ELSE LET word        == resp[1]
             status      == (word \div 16) % 16
             pump_nibble == word % 16
             pid         == nibble_to_pump_id(pump_nibble)
         IN  IF pid.ok THEN Ret(<< pid.val, status >>) ELSE pid

status_code_to_enum(status_code) ==
    CASE status_code = 0  -> "DATA_ERROR"
      [] status_code = 6  -> "OFF"
      [] status_code = 7  -> "CALL"
      [] status_code = 8  -> "AUTHORIZED"
      [] status_code = 9  -> "BUSY"
      [] status_code = 10 -> "PEOT"
      [] status_code = 11 -> "FEOT"
      [] status_code = 12 -> "STOP"
      [] OTHER            -> "OFFLINE"


-----------------------------------------------------------------------------
(* SpecCodec: the codec functions applied to bounded inputs.               *)

IntInputs == -MaxInt .. MaxInt

\* nibble_to_pump_id(pump_id_to_nibble(a)), an exception propagating
address_of_nibble_of(a) ==
    LET n == pump_id_to_nibble(a)
    IN  IF n.ok THEN nibble_to_pump_id(n.val) ELSE n

\* pump_id_to_nibble(nibble_to_pump_id(n)), an exception propagating
nibble_of_address_of(n) ==
    LET a == nibble_to_pump_id(n)
    IN  IF a.ok THEN pump_id_to_nibble(a.val) ELSE a

CodecCall(op, arg, res) ==
    /\ c_op' = op
    /\ c_arg' = arg
    /\ c_res' = res
    /\ UNCHANGED <<scan_vars, hub_vars, agg_vars, tick_vars>>

CallPumpIdToNibble ==
    \E a \in IntInputs : CodecCall("pump_id_to_nibble", a, pump_id_to_nibble(a))

CallNibbleToPumpId ==
    \E n \in IntInputs : CodecCall("nibble_to_pump_id", n, nibble_to_pump_id(n))

CallBuildStatusCommand ==
    \E a \in IntInputs : CodecCall("build_status_command", a, build_status_command(a))

CallAddressRoundTrip ==
    \E a \in IntInputs : CodecCall("address_of_nibble_of", a, address_of_nibble_of(a))

CallNibbleRoundTrip ==
    \E n \in IntInputs : CodecCall("nibble_of_address_of", n, nibble_of_address_of(n))

\* the bytes that make up the byte strings longer than one byte
SampleBytes == {0, 133, 255}

\* byte strings: the empty one, every one-byte string, and the strings of
\* 2 .. MaxRespLen sample bytes
ByteStrings ==
    {<<>>} \cup { <<w>> : w \in Byte }
           \cup UNION { [1 .. n -> SampleBytes] : n \in 2 .. MaxRespLen }

CallParseStatusResponse ==
    \E r \in ByteStrings : CodecCall("parse_status_response", r, parse_status_response(r))

\* the status codes: the values of a four-bit field
StatusCodes == 0 .. 15

CallStatusCodeToEnum ==
    \E c \in StatusCodes : CodecCall("status_code_to_enum", c, Ret(status_code_to_enum(c)))

CodecNext ==
    \/ CallPumpIdToNibble
    \/ CallNibbleToPumpId
    \/ CallBuildStatusCommand
    \/ CallAddressRoundTrip
    \/ CallNibbleRoundTrip
    \/ CallParseStatusResponse
    \/ CallStatusCodeToEnum

-----------------------------------------------------------------------------
(* SpecPrice: ws_pumps.fix_price applied to one price.  An Optional value  *)
(* is None or Some(v); a number handed to fix_price is <<n, h>>, standing  *)
(* for n + h/2 with h in {0, 1}: the integers and the floats halfway       *)
(* between two of them, which are where round() decides.                   *)

None == <<>>

Some(v) == <<v>>

\* int(round(x)): an integer is itself, a half goes to the even neighbour
IntRound(x) ==
    IF x[2] = 0 THEN x[1]
    ELSE IF x[1] % 2 = 0 THEN x[1] ELSE x[1] + 1

\* fix_price without the test that the price is a multiple of 10
fix_price_any_five_digits(ppu) ==
    IF ppu = None THEN None
    ELSE LET p == IntRound(ppu)
         IN  IF p > 9999 /\ 1000 <= p \div 10 /\ p \div 10 <= 9999
             THEN Some(p \div 10)
             ELSE Some(p)

fix_price(ppu) ==
    IF ppu = None THEN None
    ELSE LET p == IntRound(ppu)
         IN  IF p > 9999 /\ p % 10 = 0 /\ 1000 <= p \div 10 /\ p \div 10 <= 9999
             THEN Some(p \div 10)
             ELSE Some(p)

PriceInputs ==
    {None} \cup ((-MaxInt .. MaxPrice) \X {0, 1})

CallFixPrice ==
    /\ c_op = "none"
    /\ CodecCall("fix_price", c_arg, fix_price(c_arg))

PriceNext == CallFixPrice

-----------------------------------------------------------------------------
(* SpecScan: scanner.main() against a serial bus whose calls may raise and *)
(* whose reads return nothing or any one byte.                             *)

AddressRanges ==
    { r \in (1 .. MaxAddress) \X (1 .. MaxAddress) :
        r[1] <= r[2] /\ r[2] - r[1] + 1 <= MaxRangeLen }

BusCall(op, ok) == [op |-> op, addr |-> pump_address, ok |-> ok]


\* serial.Serial(...) : opens the port, or raises and main() returns
ScanOpen ==
    /\ s_pc = "open"
    /\ \/ /\ ser_open' = TRUE
          /\ s_pc' = "for"
       \/ /\ ser_open' = FALSE
          /\ s_pc' = "returned"
    /\ UNCHANGED <<address_range, pump_address, command, response,
                   discovered_pumps, s_log, bus, s_exc>>
    /\ UNCHANGED <<codec_vars, hub_vars, agg_vars, tick_vars>>

\* the for statement and build_status_command(pump_address): the range is
\* exhausted, or the command is built, or the codec raises out of the loop.
\* response is assigned by the read before the iteration uses it, so it is
\* held as empty from the end of the iteration it was read in
ScanFor ==
    /\ s_pc = "for"
    /\ IF pump_address >= address_range[2]
       THEN /\ s_pc' = "finally"
            /\ UNCHANGED <<pump_address, command, s_exc>>
       ELSE LET a == pump_address + 1
                c == build_status_command(a)
            IN  /\ pump_address' = a
                /\ IF c.ok
                   THEN /\ command' = c.val
                        /\ s_pc' = "write"
                        /\ UNCHANGED s_exc
                   ELSE /\ s_exc' = c.exc
                        /\ s_pc' = "finally"
                        /\ UNCHANGED command
    /\ response' = <<>>
    /\ UNCHANGED <<address_range, discovered_pumps, s_log, bus, ser_open>>
    /\ UNCHANGED <<codec_vars, hub_vars, agg_vars, tick_vars>>

\* a call on the port made outside the inner try: it returns and main() goes
\* on to `next`, or it raises and the exception leaves the loop
ScanPortCall(at, op, next) ==
    /\ s_pc = at
    /\ \/ /\ bus' = Append(bus, BusCall(op, TRUE))
          /\ s_pc' = next
          /\ UNCHANGED s_exc
       \/ /\ bus' = Append(bus, BusCall(op, FALSE))
          /\ s_exc' = "SerialException"
          /\ s_pc' = "finally"
    /\ UNCHANGED <<address_range, pump_address, command, response,
                   discovered_pumps, s_log, ser_open>>
    /\ UNCHANGED <<codec_vars, hub_vars, agg_vars, tick_vars>>

ScanWrite == ScanPortCall("write", "write", "flush")

ScanFlush == ScanPortCall("flush", "flush", "read")

PumpRecord(address, status, status_code, raw) ==
    [address |-> address, status |-> status,
     status_code |-> status_code, response_raw |-> raw]

\* the branch that accepts a reply without comparing the echoed pump id
ProcessResponseNoIdCheck(address, resp, pumps) ==
    IF resp = <<>>
    THEN [pumps |-> pumps, branch |-> "no_response"]
    ELSE LET p == parse_status_response(resp)
         IN  IF ~p.ok
             THEN [pumps |-> pumps, branch |-> "parse_error"]
             ELSE LET status == status_code_to_enum(p.val[2])
                  IN  IF status # "OFFLINE"
                      THEN [pumps  |-> Append(pumps,
                                        PumpRecord(address, status, p.val[2], resp)),
                            branch |-> "added"]
                      ELSE [pumps |-> pumps, branch |-> "offline"]

\* the branch for a mismatching reply recording a pump at the echoed address
ProcessResponseAddsEchoed(address, resp, pumps) ==
    IF resp = <<>>
    THEN [pumps |-> pumps, branch |-> "no_response"]
    ELSE LET p == parse_status_response(resp)
         IN  IF ~p.ok
             THEN [pumps |-> pumps, branch |-> "parse_error"]
             ELSE LET status == status_code_to_enum(p.val[2])
                  IN  IF status # "OFFLINE"
                      THEN [pumps  |-> Append(pumps,
                                        PumpRecord(p.val[1], status, p.val[2], resp)),
                            branch |-> IF p.val[1] = address THEN "added" ELSE "mismatch"]
                      ELSE [pumps |-> pumps, branch |-> "offline"]

\* what main() does with the bytes read for `address`: the list of discovered
\* pumps afterwards and the branch taken
ProcessResponse(address, resp, pumps) ==
    IF resp = <<>>
    THEN [pumps |-> pumps, branch |-> "no_response"]
    ELSE LET p == parse_status_response(resp)
         IN  IF ~p.ok
             THEN [pumps |-> pumps, branch |-> "parse_error"]
             ELSE LET response_pump_id == p.val[1]
                      status_code      == p.val[2]
                      status           == status_code_to_enum(status_code)
                  IN  IF response_pump_id = address
                      THEN IF status # "OFFLINE"
                           THEN [pumps  |-> Append(pumps,
                                             PumpRecord(address, status, status_code, resp)),
                                 branch |-> "added"]
                           ELSE [pumps |-> pumps, branch |-> "offline"]
                      ELSE [pumps |-> pumps, branch |-> "mismatch"]

LogEntry(address, branch) == [address |-> address, branch |-> branch]

\* ser.read(1) inside the inner try: it raises (caught, logged), or returns
\* no byte or one byte, which is processed; either way main() goes on
ScanRead ==
    /\ s_pc = "read"
    /\ \/ /\ bus' = Append(bus, BusCall("read", FALSE))
          /\ s_log' = Append(s_log, LogEntry(pump_address, "read_error"))
          /\ UNCHANGED <<response, discovered_pumps>>
       \/ \E resp \in {<<>>} \cup { <<w>> : w \in Byte } :
            LET r == ProcessResponse(pump_address, resp, discovered_pumps)
            IN  /\ bus' = Append(bus, BusCall("read", TRUE))
                /\ response' = resp
                /\ discovered_pumps' = r.pumps
                /\ s_log' = Append(s_log, LogEntry(pump_address, r.branch))
    /\ s_pc' = "reset"
    /\ UNCHANGED <<address_range, pump_address, command, ser_open, s_exc>>
    /\ UNCHANGED <<codec_vars, hub_vars, agg_vars, tick_vars>>

\* the iteration ending without ser.reset_input_buffer()
ScanResetSkipped ==
    /\ s_pc = "reset"
    /\ s_pc' = "for"
    /\ UNCHANGED <<address_range, pump_address, command, response,
                   discovered_pumps, s_log, bus, ser_open, s_exc>>
    /\ UNCHANGED <<codec_vars, hub_vars, agg_vars, tick_vars>>

ScanReset == ScanPortCall("reset", "reset_input_buffer", "for")

\* the finally clause without ser.close()
ScanFinallyNoClose ==
    /\ s_pc = "finally"
    /\ s_pc' = IF s_exc = "none" THEN "done" ELSE "raised"
    /\ UNCHANGED <<address_range, pump_address, command, response,
                   discovered_pumps, s_log, bus, ser_open, s_exc>>
    /\ UNCHANGED <<codec_vars, hub_vars, agg_vars, tick_vars>>

\* the finally clause: the port is closed; a propagating exception then leaves
\* main(), otherwise the summary is logged
ScanFinally ==
    /\ s_pc = "finally"
    /\ bus' = Append(bus, BusCall("close", TRUE))
    /\ ser_open' = FALSE
    /\ s_pc' = IF s_exc = "none" THEN "done" ELSE "raised"
    /\ UNCHANGED <<address_range, pump_address, command, response,
                   discovered_pumps, s_log, s_exc>>
    /\ UNCHANGED <<codec_vars, hub_vars, agg_vars, tick_vars>>

ScanNext ==
    \/ ScanOpen
    \/ ScanFor
    \/ ScanWrite
    \/ ScanFlush
    \/ ScanRead
    \/ ScanReset
    \/ ScanFinally

-----------------------------------------------------------------------------
(* SpecHub: ws_pumps.py.  Every websocket connection runs its own          *)
(* pumps_socket handler on one event loop; a handler runs without          *)
(* interruption from one await to the next, so each action below is the    *)
(* code between two suspension points (ws.accept, ws.send_json,            *)
(* asyncio.sleep).  The pump loop of a tick iterates over an empty         *)
(* pump_statuses and the frame broadcast is get_frame()'s.                 *)

WS == 1 .. NumClients

Range(f) == { f[i] : i \in DOMAIN f }

\* Hub.connect after ws.accept() returned
HubConnect(cl, ws) == Append(cl, ws)

\* Hub.disconnect removing by position: the socket's entry, or the last entry
\* when the socket is not found
HubDisconnectByPosition(cl, ws) ==
    IF cl = <<>> THEN cl
    ELSE LET at == IF \E i \in DOMAIN cl : cl[i] = ws
                   THEN CHOOSE i \in DOMAIN cl : cl[i] = ws
                   ELSE Len(cl)
         IN  SubSeq(cl, 1, at - 1) \o SubSeq(cl, at + 1, Len(cl))

\* Hub.disconnect cutting the registry at the socket's entry: the socket and
\* every socket appended after it are dropped
HubDisconnectTruncate(cl, ws) ==
    IF \E i \in DOMAIN cl : cl[i] = ws
    THEN SubSeq(cl, 1, (CHOOSE i \in DOMAIN cl : cl[i] = ws) - 1)
    ELSE cl

\* Hub.disconnect
HubDisconnect(cl, ws) == SelectSeq(cl, LAMBDA c : c # ws)

\* for ws in disconnected_clients: self.disconnect(ws)
RECURSIVE DisconnectEach(_, _)
DisconnectEach(cl, failed) ==
    IF failed = <<>> THEN cl
    ELSE DisconnectEach(HubDisconnect(cl, Head(failed)), Tail(failed))

\* the list a broadcast iterates over, were it self.clients itself
BroadcastTargetsLive(w) == clients

\* the list a broadcast iterates over: the copy taken when it started
BroadcastTargets(w) == b_targets[w]

\* a failed send propagating out of broadcast
OnSendErrorPropagate == "propagate"

\* the except clause around ws.send_json: the socket is marked, the sweep goes on
OnSendError == "mark"

\* an exception of a tick leaving the while loop
OnTickErrorExit == "exit"

\* the except clause around the tick's body: logged, then the sleep
OnTickError == "sleep"

\* ws.send_json(msg) on connection t
SendJson(t) == IF t \in broken THEN "raise" ELSE "sent"

\* no broadcast has returned yet
NoBroadcast ==
    [targets |-> <<>>, sent |-> {}, failed |-> <<>>, left_mid |-> FALSE, late |-> {}]

\* the registry becomes cl by a step of handler w, which appends `joiners`:
\* a handler suspended in a send that loses a target of its sweep, or gains
\* a subscriber its copy does not hold, notes it
RegistryBecomes(w, cl, joiners) ==
    /\ clients' = cl
    /\ left_mid' = [v \in WS |->
                     IF v = w \/ h_pc[v] # "send" THEN FALSE
                     ELSE left_mid[v]
                            \/ \E t \in Range(b_targets[v]) :
                                   t \in Range(clients) /\ t \notin Range(cl)]
    /\ late' = [v \in WS |->
                     IF v = w \/ h_pc[v] # "send" THEN {}
                     ELSE late[v] \cup joiners]

\* the locals of handler w's broadcast are gone
BroadcastLocalsGone(w) ==
    /\ b_ts' = [b_ts EXCEPT ![w] = 0]
    /\ b_targets' = [b_targets EXCEPT ![w] = <<>>]
    /\ b_idx' = [b_idx EXCEPT ![w] = 0]
    /\ b_failed' = [b_failed EXCEPT ![w] = <<>>]
    /\ b_sent' = [b_sent EXCEPT ![w] = {}]

\* an exception raised at `at` ("frame": building or encoding the frame,
\* "send": out of broadcast) reached the except clause of the tick (or, were
\* there none, the handler's outer clauses and its finally) with the registry
\* being cl, to which this step appended `joiners`
TickError(w, cl, joiners, at) ==
    /\ tick_exc' = [tick_exc EXCEPT ![w] = at]
    /\ BroadcastLocalsGone(w)
    /\ UNCHANGED returned
    /\ IF OnTickError = "sleep"
       THEN /\ h_pc' = [h_pc EXCEPT ![w] = "sleep"]
            /\ slept' = [slept EXCEPT ![w] = FALSE]
            /\ RegistryBecomes(w, cl, joiners)
            /\ UNCHANGED h_exit
       ELSE /\ h_pc' = [h_pc EXCEPT ![w] = "closed"]
            /\ h_exit' = [h_exit EXCEPT ![w] = "exception"]
            /\ RegistryBecomes(w, HubDisconnect(cl, w), joiners \ {w})
            /\ UNCHANGED slept

\* broadcast to `targets` returned, having delivered to `sent` and marked
\* `failed`, with the registry being cl, to which this step appended
\* `joiners`; the handler goes on to asyncio.sleep(TICK)
BroadcastReturns(w, cl, joiners, targets, sent, failed) ==
    /\ RegistryBecomes(w, DisconnectEach(cl, failed), joiners)
    /\ returned' = [targets |-> targets, sent |-> sent, failed |-> failed,
                    left_mid |-> left_mid[w], late |-> late[w]]
    /\ BroadcastLocalsGone(w)
    /\ h_pc' = [h_pc EXCEPT ![w] = "sleep"]
    /\ slept' = [slept EXCEPT ![w] = FALSE]

\* one pass of the while loop's body from its top to its first await, with
\* the registry being cl, to which this step appended `joiners`: a step
\* raises, or the frame is built and broadcast starts (the registry is copied
\* and the first send awaited)
StartTick(w, cl, joiners) ==
    \/ /\ nfaults < MaxFaults
       /\ nfaults' = nfaults + 1
       /\ nframes' = nframes
       /\ TickError(w, cl, joiners, "frame")
       /\ UNCHANGED bcasts_in_tick
    \/ /\ nframes' = nframes + 1
       /\ bcasts_in_tick' = bcasts_in_tick + 1
       /\ UNCHANGED nfaults
       /\ tick_exc' = [tick_exc EXCEPT ![w] = "none"]
       /\ UNCHANGED h_exit
       /\ IF cl = <<>>
          THEN BroadcastReturns(w, cl, joiners, cl, {}, <<>>)
          ELSE /\ h_pc' = [h_pc EXCEPT ![w] = "send"]
               /\ b_ts' = [b_ts EXCEPT ![w] = nframes + 1]
               /\ b_targets' = [b_targets EXCEPT ![w] = cl]
               /\ b_idx' = [b_idx EXCEPT ![w] = 1]
               /\ b_failed' = [b_failed EXCEPT ![w] = <<>>]
               /\ b_sent' = [b_sent EXCEPT ![w] = {}]
               /\ RegistryBecomes(w, cl, joiners)
               /\ UNCHANGED <<slept, returned>>

\* a client connects and ws.accept() raises: the handler ends before the
\* socket is registered
AcceptRaises(w) ==
    /\ h_pc[w] = "idle"
    /\ nfaults < MaxFaults
    /\ nfaults' = nfaults + 1
    /\ h_pc' = [h_pc EXCEPT ![w] = "closed"]
    /\ h_exit' = [h_exit EXCEPT ![w] = "accept"]
    /\ UNCHANGED <<clients, tick_exc, b_ts, b_targets, b_idx, b_failed,
                   b_sent, left_mid, returned, broken, nframes, slept,
                   bcasts_in_tick, late>>
    /\ UNCHANGED <<codec_vars, scan_vars, agg_vars, tick_vars>>

\* a client connects and ws.accept() returns: the socket is appended and the
\* handler's first tick starts
Accepted(w) ==
    /\ h_pc[w] = "idle"
    /\ nframes < MaxFrames
    /\ StartTick(w, HubConnect(clients, w), {w})
    /\ UNCHANGED broken
    /\ UNCHANGED <<codec_vars, scan_vars, agg_vars, tick_vars>>

\* asyncio.sleep(TICK) returns: the next tick starts
Wake(w) ==
    /\ h_pc[w] = "sleep"
    /\ slept[w]
    /\ nframes < MaxFrames
    /\ StartTick(w, clients, {})
    /\ UNCHANGED broken
    /\ UNCHANGED <<codec_vars, scan_vars, agg_vars, tick_vars>>

\* the awaited ws.send_json returns or raises; the sweep goes on to the next
\* target, or broadcast returns after its batch removal
SendReturns(w) ==
    /\ h_pc[w] = "send"
    /\ LET targets == BroadcastTargets(w)
           i       == b_idx[w]
           t       == IF i <= Len(targets) THEN targets[i] ELSE w
           out     == IF i <= Len(targets) THEN SendJson(t) ELSE "none"
           sent    == IF out = "sent" THEN b_sent[w] \cup {t} ELSE b_sent[w]
           failed  == IF out = "raise" THEN Append(b_failed[w], t) ELSE b_failed[w]
       IN  IF out = "raise" /\ OnSendError = "propagate"
           THEN TickError(w, clients, {}, "send")
           ELSE /\ UNCHANGED <<tick_exc, h_exit>>
                /\ IF i < Len(targets)
                   THEN /\ b_idx' = [b_idx EXCEPT ![w] = i + 1]
                        /\ b_sent' = [b_sent EXCEPT ![w] = sent]
                        /\ b_failed' = [b_failed EXCEPT ![w] = failed]
                        /\ UNCHANGED <<clients, h_pc, slept, left_mid, late,
                                       returned, b_ts, b_targets>>
                   ELSE BroadcastReturns(w, clients, {}, b_targets[w], sent, failed)
    /\ UNCHANGED <<broken, nframes, bcasts_in_tick, nfaults>>
    /\ UNCHANGED <<codec_vars, scan_vars, agg_vars, tick_vars>>

\* the handler's task is cancelled while suspended in the loop: CancelledError
\* passes the except clauses and the finally clause disconnects the socket;
\* the connection may be closed with it, and sends on it raise from then on
Cancel(w) ==
    /\ h_pc[w] \in {"send", "sleep"}
    /\ nfaults < MaxFaults
    /\ nfaults' = nfaults + 1
    /\ h_pc' = [h_pc EXCEPT ![w] = "closed"]
    /\ h_exit' = [h_exit EXCEPT ![w] = "cancelled"]
    /\ RegistryBecomes(w, HubDisconnect(clients, w), {})
    /\ BroadcastLocalsGone(w)
    /\ broken' \in {broken, broken \cup {w}}
    /\ UNCHANGED <<tick_exc, returned, nframes, slept, bcasts_in_tick>>
    /\ UNCHANGED <<codec_vars, scan_vars, agg_vars, tick_vars>>

\* the peer of a registered connection goes away: sends on it raise from now on
Break(t) ==
    /\ t \in Range(clients)
    /\ t \notin broken
    /\ nfaults < MaxFaults
    /\ nfaults' = nfaults + 1
    /\ broken' = broken \cup {t}
    /\ UNCHANGED <<clients, h_pc, h_exit, tick_exc, b_ts, b_targets, b_idx, b_failed,
                   b_sent, left_mid, returned, nframes, slept, bcasts_in_tick, late>>
    /\ UNCHANGED <<codec_vars, scan_vars, agg_vars, tick_vars>>

\* TICK seconds pass: every sleep begun before has elapsed
TickElapses ==
    /\ \E w \in WS : h_pc[w] = "sleep" /\ ~slept[w]
    /\ slept' = [w \in WS |-> slept[w] \/ h_pc[w] = "sleep"]
    /\ bcasts_in_tick' = 0
    /\ UNCHANGED <<clients, h_pc, h_exit, tick_exc, b_ts, b_targets, b_idx, b_failed,
                   b_sent, left_mid, returned, broken, nframes, late, nfaults>>
    /\ UNCHANGED <<codec_vars, scan_vars, agg_vars, tick_vars>>

HubNext ==
    \/ \E w \in WS : AcceptRaises(w)
    \/ \E w \in WS : Accepted(w)
    \/ \E w \in WS : Wake(w)
    \/ \E w \in WS : SendReturns(w)
    \/ \E w \in WS : Cancel(w)
    \/ \E t \in WS : Break(t)
    \/ TickElapses

-----------------------------------------------------------------------------
(* SpecAgg: one pass of the per-pump body of a tick (ws_pumps.py, the body *)
(* of `for pid, st in pump_statuses.items()`) for one pump, pass after     *)
(* pass over the module-level caches meta, last_live and last_tx.  The     *)
(* pump's status, the outcome of pm.get_realtime(pid) and the receipt of   *)
(* the pump are the pump manager's, drawn afresh in every pass; where the  *)
(* receipt was read the source has the placeholder `tx = {}`, which is the *)
(* read that yields nothing.  Live values are counted in                   *)
(* ten-thousandths, volumes in thousandths, amounts in units; a rounding   *)
(* whose decimal argument lies exactly halfway may go either way, as the   *)
(* binary float behind it decides.                                         *)

PumpStatuses ==
    {"IDLE", "CALLING", "AUTHORIZED", "DISPENSING", "COMPLETE", "STOPPED",
     "ERROR", "OFFLINE"}

\* live values, in ten-thousandths: the small ones, values around the half
\* of a hundredth, 3.5 and 10.00
LiveValues == (0 .. MaxLive) \cup {45, 50, 55, 35000, 100000}

\* pm.get_realtime(pid): raises (as it does while the name pm is unbound),
\* or returns None or a live value
RealtimeReads ==
    {[kind |-> "raise", val |-> None], [kind |-> "value", val |-> None]}
        \cup { [kind |-> "value", val |-> Some(v)] : v \in LiveValues }

\* the values of price_per_unit in a receipt (TransactionData): absent, zero,
\* negative, small, a four-digit price and the same price reported tenfold
MetaPrices == {None, Some(-1), Some(0), Some(3), Some(8150), Some(81500)}

\* the receipts the pump manager hands out for the pump, told apart by grade
TxPayloads ==
    { [price_per_unit |-> None,        grade |-> 0],
      [price_per_unit |-> Some(0),     grade |-> 0],
      [price_per_unit |-> Some(-1),    grade |-> 1],
      [price_per_unit |-> Some(3),     grade |-> 1],
      [price_per_unit |-> Some(8150),  grade |-> 2],
      [price_per_unit |-> Some(81500), grade |-> 3] }

\* the read of the pump's receipt, where the source has `tx = {}`: it raises,
\* or yields nothing (the empty dict), or a receipt
TxReads ==
    {[kind |-> "raise", val |-> None], [kind |-> "value", val |-> None]}
        \cup { [kind |-> "value", val |-> Some(p)] : p \in TxPayloads }

\* truth value of an Optional number: None and 0 are false
Truthy(x) == x # None /\ x[1] # 0

\* round(num / den, 0) for num >= 0 and den > 0: the nearest integer, either
\* neighbour when num / den lies halfway
RoundDiv(num, den) ==
    LET q == num \div den
        r == num % den
    IN  IF 2 * r < den THEN {q}
        ELSE IF 2 * r > den THEN {q + 1}
        ELSE {q, q + 1}

\* the realtime record, with the volume computed as round(live, 2) whether or
\* not a price is known
RealtimeRecordsMoneyOnly(m, ll) ==
    LET price_per_unit == IF m = None THEN None ELSE m[1].price_per_unit
        price == IF Truthy(price_per_unit) THEN Some(price_per_unit[1] * 10) ELSE None
        grade == IF m = None THEN None ELSE Some(m[1].grade)
    IN  IF ll # None
        THEN { [price_per_unit |-> price, grade |-> grade,
                total_amount |-> None, volume |-> Some(h * 10)] :
                  h \in RoundDiv(ll[1], 100) }
        ELSE { [price_per_unit |-> price, grade |-> grade,
                total_amount |-> None, volume |-> None] }

\* the realtime record rt built for a DISPENSING pump from meta[pid] and
\* last_live[pid]: the set of records the roundings allow
RealtimeRecords(m, ll) ==
    LET price_per_unit == IF m = None THEN None ELSE m[1].price_per_unit
        price == IF Truthy(price_per_unit) THEN Some(price_per_unit[1] * 10) ELSE None
        grade == IF m = None THEN None ELSE Some(m[1].grade)
    IN  IF Truthy(price) /\ price[1] > 0 /\ ll # None
        THEN UNION { { [price_per_unit |-> price, grade |-> grade,
                        total_amount |-> Some(h * 10), volume |-> Some(v)] :
                          v \in RoundDiv(h * 10 * 1000, price[1]) } :
                     h \in RoundDiv(ll[1], 100) }
        ELSE IF ll # None
        THEN { [price_per_unit |-> price, grade |-> grade,
                total_amount |-> None, volume |-> Some(v)] :
                  v \in RoundDiv(ll[1], 10) }
        ELSE { [price_per_unit |-> price, grade |-> grade,
                total_amount |-> None, volume |-> None] }

\* the refresh overwriting meta[pid] whether or not the pump has an entry
MetaRefreshedAlways(m, tx) ==
    IF tx # None /\ Truthy(tx[1].price_per_unit)
    THEN Some([price_per_unit |-> fix_price(<< tx[1].price_per_unit[1], 0 >>),
               grade |-> tx[1].grade])
    ELSE m

\* the opportunistic refresh of meta[pid] from the receipt read
MetaRefreshed(m, tx) ==
    IF m = None /\ tx # None /\ Truthy(tx[1].price_per_unit)
    THEN Some([price_per_unit |-> fix_price(<< tx[1].price_per_unit[1], 0 >>),
               grade |-> tx[1].grade])
    ELSE m

\* fix_price applied to the price of a receipt
FixedPrice(ppu) == IF ppu = None THEN None ELSE fix_price(<< ppu[1], 0 >>)

\* txd with the price as the receipt reports it
TransactionRecordUnfixed(tx) == tx

\* txd = tx.dict() with txd["price_per_unit"] = fix_price(txd["price_per_unit"])
TransactionRecord(tx) ==
    [tx EXCEPT !.price_per_unit = FixedPrice(tx.price_per_unit)]

\* meta[pid] as the COMPLETE / IDLE branch sets it from txd
MetaOf(txd) == Some([price_per_unit |-> txd.price_per_unit, grade |-> txd.grade])

\* one pass of the loop body for the pump: st.dict() raises and the pass is
\* skipped, or the record is built for st.status and appended
ProcessPump ==
    /\ \E st \in PumpStatuses :
          /\ st_status' = st
          /\ \/ /\ item' = None
                /\ live_val' = [kind |-> "none", val |-> None]
                /\ tx_read' = [kind |-> "none", val |-> None]
                /\ UNCHANGED <<meta, last_live, last_tx>>
             \/ \E t \in TxReads :
                  LET tx == t.val
                      m1 == MetaRefreshed(meta, tx)
                  IN  /\ tx_read' = t
                      /\ IF st = "DISPENSING"
                         THEN \E r \in RealtimeReads :
                                LET ll1 == IF r.kind = "value" /\ r.val # None THEN r.val
                                           ELSE last_live
                                IN  /\ live_val' = r
                                    /\ meta' = m1
                                    /\ last_live' = ll1
                                    /\ \E rt \in RealtimeRecords(m1, ll1) :
                                          item' = Some([status |-> st,
                                                        realtime |-> Some(rt),
                                                        transaction |-> None])
                                    /\ last_tx' = IF ll1 # None /\ ll1[1] = 0 THEN None
                                                  ELSE last_tx
                         ELSE IF st \in {"COMPLETE", "IDLE"} /\ tx # None
                         THEN LET txd == TransactionRecord(tx[1])
                              IN  /\ live_val' = [kind |-> "none", val |-> None]
                                  /\ item' = Some([status |-> st, realtime |-> None,
                                                   transaction |-> Some(txd)])
                                  /\ last_tx' = Some(txd)
                                  /\ meta' = MetaOf(txd)
                                  /\ UNCHANGED last_live
                         ELSE /\ live_val' = [kind |-> "none", val |-> None]
                              /\ meta' = m1
                              /\ item' = Some([status |-> st, realtime |-> None,
                                               transaction |-> None])
                              /\ UNCHANGED <<last_live, last_tx>>
    /\ UNCHANGED <<codec_vars, scan_vars, hub_vars, tick_vars>>

AggNext == ProcessPump

-----------------------------------------------------------------------------
(* SpecTick: the pump loop of one tick of pumps_socket and the broadcast   *)
(* that follows it, for the pumps 1 .. n the tick iterates over.  What a   *)
(* pass computes is SpecAgg's; here a pass is the place, if any, at which  *)
(* it raises, and the except clause that catches it.                       *)

\* the places of a pass that may raise: st.dict() or st.status (a missing
\* field), the receipt read of the meta refresh, pm.get_realtime, the
\* computation of rt, the receipt read of the COMPLETE / IDLE branch
FailureSites == {"field", "meta_read", "live_read", "realtime", "tx_read"}

\* the except clause that catches an exception raised at `site`: the one
\* around the read, or the one around the whole pass
Handler(site) ==
    IF site \in {"meta_read", "live_read", "tx_read"} THEN "inner" ELSE "outer"

\* the except clause around the pass raising again
OnPumpErrorRaise == "raise"

\* the except clause around the pass: logged, then `continue`
OnPumpError == "continue"

\* the top of the tick: the frame is created with no pumps and the for loop
\* starts
TickBegin ==
    /\ t_pc = "top"
    /\ frame_pumps' = <<>>
    /\ t_todo' = pump_statuses
    /\ t_pc' = "loop"
    /\ UNCHANGED <<pump_statuses, t_out, t_exc, t_bcasts>>
    /\ UNCHANGED <<codec_vars, scan_vars, hub_vars, agg_vars>>

\* one pass of the for loop: it runs through and the record is appended, or
\* it raises at some place; caught around the read, the pass goes on and the
\* record is appended; caught around the pass, the pump is skipped
PumpPass ==
    /\ t_pc = "loop"
    /\ t_todo # <<>>
    /\ LET pid == Head(t_todo)
       IN  \E site \in {"none"} \cup FailureSites :
              /\ t_out' = [t_out EXCEPT ![pid] = site]
              /\ IF site = "none" \/ Handler(site) = "inner"
                 THEN /\ frame_pumps' = Append(frame_pumps, pid)
                      /\ t_todo' = Tail(t_todo)
                      /\ UNCHANGED <<t_pc, t_exc>>
                 ELSE IF OnPumpError = "continue"
                 THEN /\ t_todo' = Tail(t_todo)
                      /\ UNCHANGED <<frame_pumps, t_pc, t_exc>>
                 ELSE /\ t_exc' = site
                      /\ t_pc' = "sleep"
                      /\ UNCHANGED <<frame_pumps, t_todo>>
    /\ UNCHANGED <<pump_statuses, t_bcasts>>
    /\ UNCHANGED <<codec_vars, scan_vars, hub_vars, agg_vars>>

\* the loop is over: await hub.broadcast(get_frame()), then the sleep
TickBroadcast ==
    /\ t_pc = "loop"
    /\ t_todo = <<>>
    /\ t_bcasts' = t_bcasts + 1
    /\ t_pc' = "sleep"
    /\ UNCHANGED <<pump_statuses, t_todo, frame_pumps, t_out, t_exc>>
    /\ UNCHANGED <<codec_vars, scan_vars, hub_vars, agg_vars>>

TickNext ==
    \/ TickBegin
    \/ PumpPass
    \/ TickBroadcast

-----------------------------------------------------------------------------
(* The specifications.                                                     *)

\* no codec call made, main() not running, no connection made
InitCodec ==
    /\ c_op = "none"
    /\ c_arg = 0
    /\ c_res = Ret(0)
    /\ address_range = <<1, 1>>
    /\ s_pc = "idle"
    /\ pump_address = 0
    /\ command = <<>>
    /\ response = <<>>
    /\ discovered_pumps = <<>>
    /\ s_log = <<>>
    /\ bus = <<>>
    /\ ser_open = FALSE
    /\ s_exc = "none"
    /\ clients = <<>>
    /\ h_pc = [w \in WS |-> "idle"]
    /\ h_exit = [w \in WS |-> "none"]
    /\ tick_exc = [w \in WS |-> "none"]
    /\ b_ts = [w \in WS |-> 0]
    /\ b_targets = [w \in WS |-> <<>>]
    /\ b_idx = [w \in WS |-> 0]
    /\ b_failed = [w \in WS |-> <<>>]
    /\ b_sent = [w \in WS |-> {}]
    /\ left_mid = [w \in WS |-> FALSE]
    /\ returned = NoBroadcast
    /\ broken = {}
    /\ nframes = 0
    /\ slept = [w \in WS |-> FALSE]
    /\ bcasts_in_tick = 0
    /\ late = [w \in WS |-> {}]
    /\ nfaults = 0
    /\ meta = None
    /\ last_live = None
    /\ last_tx = None
    /\ st_status = "none"
    /\ live_val = [kind |-> "none", val |-> None]
    /\ tx_read = [kind |-> "none", val |-> None]
    /\ item = None
    /\ pump_statuses = <<>>
    /\ t_pc = "idle"
    /\ t_todo = <<>>
    /\ frame_pumps = <<>>
    /\ t_out = [pid \in 1 .. NumPumps |-> "unprocessed"]
    /\ t_exc = "none"
    /\ t_bcasts = 0

\* main() entered with some ADDRESS_RANGE: the port is not open, nothing is
\* discovered, pump_address holds the value before the range's first
InitScan ==
    /\ c_op = "none"
    /\ c_arg = 0
    /\ c_res = Ret(0)
    /\ address_range \in AddressRanges
    /\ s_pc = "open"
    /\ pump_address = address_range[1] - 1
    /\ command = <<>>
    /\ response = <<>>
    /\ discovered_pumps = <<>>
    /\ s_log = <<>>
    /\ bus = <<>>
    /\ ser_open = FALSE
    /\ s_exc = "none"
    /\ clients = <<>>
    /\ h_pc = [w \in WS |-> "idle"]
    /\ h_exit = [w \in WS |-> "none"]
    /\ tick_exc = [w \in WS |-> "none"]
    /\ b_ts = [w \in WS |-> 0]
    /\ b_targets = [w \in WS |-> <<>>]
    /\ b_idx = [w \in WS |-> 0]
    /\ b_failed = [w \in WS |-> <<>>]
    /\ b_sent = [w \in WS |-> {}]
    /\ left_mid = [w \in WS |-> FALSE]
    /\ returned = NoBroadcast
    /\ broken = {}
    /\ nframes = 0
    /\ slept = [w \in WS |-> FALSE]
    /\ bcasts_in_tick = 0
    /\ late = [w \in WS |-> {}]
    /\ nfaults = 0
    /\ meta = None
    /\ last_live = None
    /\ last_tx = None
    /\ st_status = "none"
    /\ live_val = [kind |-> "none", val |-> None]
    /\ tx_read = [kind |-> "none", val |-> None]
    /\ item = None
    /\ pump_statuses = <<>>
    /\ t_pc = "idle"
    /\ t_todo = <<>>
    /\ frame_pumps = <<>>
    /\ t_out = [pid \in 1 .. NumPumps |-> "unprocessed"]
    /\ t_exc = "none"
    /\ t_bcasts = 0

\* the server started: no connection made, no frame built
InitHub ==
    /\ c_op = "none"
    /\ c_arg = 0
    /\ c_res = Ret(0)
    /\ address_range = <<1, 1>>
    /\ s_pc = "idle"
    /\ pump_address = 0
    /\ command = <<>>
    /\ response = <<>>
    /\ discovered_pumps = <<>>
    /\ s_log = <<>>
    /\ bus = <<>>
    /\ ser_open = FALSE
    /\ s_exc = "none"
    /\ clients = <<>>
    /\ h_pc = [w \in WS |-> "idle"]
    /\ h_exit = [w \in WS |-> "none"]
    /\ tick_exc = [w \in WS |-> "none"]
    /\ b_ts = [w \in WS |-> 0]
    /\ b_targets = [w \in WS |-> <<>>]
    /\ b_idx = [w \in WS |-> 0]
    /\ b_failed = [w \in WS |-> <<>>]
    /\ b_sent = [w \in WS |-> {}]
    /\ left_mid = [w \in WS |-> FALSE]
    /\ returned = NoBroadcast
    /\ broken = {}
    /\ nframes = 0
    /\ slept = [w \in WS |-> FALSE]
    /\ bcasts_in_tick = 0
    /\ late = [w \in WS |-> {}]
    /\ nfaults = 0
    /\ meta = None
    /\ last_live = None
    /\ last_tx = None
    /\ st_status = "none"
    /\ live_val = [kind |-> "none", val |-> None]
    /\ tx_read = [kind |-> "none", val |-> None]
    /\ item = None
    /\ pump_statuses = <<>>
    /\ t_pc = "idle"
    /\ t_todo = <<>>
    /\ frame_pumps = <<>>
    /\ t_out = [pid \in 1 .. NumPumps |-> "unprocessed"]
    /\ t_exc = "none"
    /\ t_bcasts = 0

\* fix_price is about to be called with some price
InitPrice ==
    /\ c_op = "none"
    /\ c_arg \in PriceInputs
    /\ c_res = Ret(0)
    /\ address_range = <<1, 1>>
    /\ s_pc = "idle"
    /\ pump_address = 0
    /\ command = <<>>
    /\ response = <<>>
    /\ discovered_pumps = <<>>
    /\ s_log = <<>>
    /\ bus = <<>>
    /\ ser_open = FALSE
    /\ s_exc = "none"
    /\ clients = <<>>
    /\ h_pc = [w \in WS |-> "idle"]
    /\ h_exit = [w \in WS |-> "none"]
    /\ tick_exc = [w \in WS |-> "none"]
    /\ b_ts = [w \in WS |-> 0]
    /\ b_targets = [w \in WS |-> <<>>]
    /\ b_idx = [w \in WS |-> 0]
    /\ b_failed = [w \in WS |-> <<>>]
    /\ b_sent = [w \in WS |-> {}]
    /\ left_mid = [w \in WS |-> FALSE]
    /\ returned = NoBroadcast
    /\ broken = {}
    /\ nframes = 0
    /\ slept = [w \in WS |-> FALSE]
    /\ bcasts_in_tick = 0
    /\ late = [w \in WS |-> {}]
    /\ nfaults = 0
    /\ meta = None
    /\ last_live = None
    /\ last_tx = None
    /\ st_status = "none"
    /\ live_val = [kind |-> "none", val |-> None]
    /\ tx_read = [kind |-> "none", val |-> None]
    /\ item = None
    /\ pump_statuses = <<>>
    /\ t_pc = "idle"
    /\ t_todo = <<>>
    /\ frame_pumps = <<>>
    /\ t_out = [pid \in 1 .. NumPumps |-> "unprocessed"]
    /\ t_exc = "none"
    /\ t_bcasts = 0

\* the caches are empty, no pass made yet
InitAgg ==
    /\ c_op = "none"
    /\ c_arg = 0
    /\ c_res = Ret(0)
    /\ address_range = <<1, 1>>
    /\ s_pc = "idle"
    /\ pump_address = 0
    /\ command = <<>>
    /\ response = <<>>
    /\ discovered_pumps = <<>>
    /\ s_log = <<>>
    /\ bus = <<>>
    /\ ser_open = FALSE
    /\ s_exc = "none"
    /\ clients = <<>>
    /\ h_pc = [w \in WS |-> "idle"]
    /\ h_exit = [w \in WS |-> "none"]
    /\ tick_exc = [w \in WS |-> "none"]
    /\ b_ts = [w \in WS |-> 0]
    /\ b_targets = [w \in WS |-> <<>>]
    /\ b_idx = [w \in WS |-> 0]
    /\ b_failed = [w \in WS |-> <<>>]
    /\ b_sent = [w \in WS |-> {}]
    /\ left_mid = [w \in WS |-> FALSE]
    /\ returned = NoBroadcast
    /\ broken = {}
    /\ nframes = 0
    /\ slept = [w \in WS |-> FALSE]
    /\ bcasts_in_tick = 0
    /\ late = [w \in WS |-> {}]
    /\ nfaults = 0
    /\ meta = None
    /\ last_live = None
    /\ last_tx = None
    /\ st_status = "none"
    /\ live_val = [kind |-> "none", val |-> None]
    /\ tx_read = [kind |-> "none", val |-> None]
    /\ item = None
    /\ pump_statuses = <<>>
    /\ t_pc = "idle"
    /\ t_todo = <<>>
    /\ frame_pumps = <<>>
    /\ t_out = [pid \in 1 .. NumPumps |-> "unprocessed"]
    /\ t_exc = "none"
    /\ t_bcasts = 0

\* a tick is about to start for the pumps 1 .. n
InitTick ==
    /\ c_op = "none"
    /\ c_arg = 0
    /\ c_res = Ret(0)
    /\ address_range = <<1, 1>>
    /\ s_pc = "idle"
    /\ pump_address = 0
    /\ command = <<>>
    /\ response = <<>>
    /\ discovered_pumps = <<>>
    /\ s_log = <<>>
    /\ bus = <<>>
    /\ ser_open = FALSE
    /\ s_exc = "none"
    /\ clients = <<>>
    /\ h_pc = [w \in WS |-> "idle"]
    /\ h_exit = [w \in WS |-> "none"]
    /\ tick_exc = [w \in WS |-> "none"]
    /\ b_ts = [w \in WS |-> 0]
    /\ b_targets = [w \in WS |-> <<>>]
    /\ b_idx = [w \in WS |-> 0]
    /\ b_failed = [w \in WS |-> <<>>]
    /\ b_sent = [w \in WS |-> {}]
    /\ left_mid = [w \in WS |-> FALSE]
    /\ returned = NoBroadcast
    /\ broken = {}
    /\ nframes = 0
    /\ slept = [w \in WS |-> FALSE]
    /\ bcasts_in_tick = 0
    /\ late = [w \in WS |-> {}]
    /\ nfaults = 0
    /\ meta = None
    /\ last_live = None
    /\ last_tx = None
    /\ st_status = "none"
    /\ live_val = [kind |-> "none", val |-> None]
    /\ tx_read = [kind |-> "none", val |-> None]
    /\ item = None
    /\ pump_statuses \in { [i \in 1 .. n |-> i] : n \in 0 .. NumPumps }
    /\ t_pc = "top"
    /\ t_todo = <<>>
    /\ frame_pumps = <<>>
    /\ t_out = [pid \in 1 .. NumPumps |-> "unprocessed"]
    /\ t_exc = "none"
    /\ t_bcasts = 0

SpecCodec == InitCodec /\ [][CodecNext]_vars

SpecScan == InitScan /\ [][ScanNext]_vars

SpecHub == InitHub /\ [][HubNext]_vars

SpecPrice == InitPrice /\ [][PriceNext]_vars

SpecAgg == InitAgg /\ [][AggNext]_vars

SpecTick == InitTick /\ [][TickNext]_vars

-----------------------------------------------------------------------------
(* Properties of the codec (SpecCodec).                                    *)

\* C9: pump_id_to_nibble and nibble_to_pump_id are inverse bijections between
\* the addresses 1..16 and the nibbles 0..15: the composition either way
\* returns its argument, address 16 maps to nibble 0 and back, and the
\* addresses 1..15 map to the equal nibble and back.
C9_AddressNibbleBijection ==
    /\ (c_op = "address_of_nibble_of" /\ c_arg \in 1 .. 16) => c_res = Ret(c_arg)
    /\ (c_op = "nibble_of_address_of" /\ c_arg \in 0 .. 15) => c_res = Ret(c_arg)
    /\ (c_op = "pump_id_to_nibble" /\ c_arg = 16) => c_res = Ret(0)
    /\ (c_op = "pump_id_to_nibble" /\ c_arg \in 1 .. 15) => c_res = Ret(c_arg)
    /\ (c_op = "nibble_to_pump_id" /\ c_arg = 0) => c_res = Ret(16)
    /\ (c_op = "nibble_to_pump_id" /\ c_arg \in 1 .. 15) => c_res = Ret(c_arg)

\* address 16 went to nibble 0 and came back as 16
C9_Witness ==
    /\ c_op = "address_of_nibble_of"
    /\ c_arg = 16
    /\ c_res = Ret(16)
    /\ pump_id_to_nibble(16) = Ret(0)

\* C10: pump_id_to_nibble and build_status_command raise ValueError for every
\* integer outside 1..16, nibble_to_pump_id raises ValueError for every
\* integer outside 0..15; no such input yields a value.
C10_OutOfRangeRaises ==
    /\ (c_op \in {"pump_id_to_nibble", "build_status_command"} /\ c_arg \notin 1 .. 16)
           => c_res = Raise("ValueError")
    /\ (c_op = "nibble_to_pump_id" /\ c_arg \notin 0 .. 15)
           => c_res = Raise("ValueError")

\* build_status_command(17) raised
C10_Witness ==
    /\ c_op = "build_status_command"
    /\ c_arg = 17
    /\ ~c_res.ok
    /\ c_res.exc = "ValueError"

\* C11: for every address in 1..16 build_status_command returns one byte
\* whose high nibble is 0 and whose low nibble is the address's nibble; for
\* every byte w parse_status_response(<<w>>) returns (address, status) with
\* status = w >> 4 and the nibble of address = w & 0xF, so the byte is
\* recomposed as (status << 4) | nibble.
C11_CodecByteLayout ==
    /\ (c_op = "build_status_command" /\ c_arg \in 1 .. 16) =>
           /\ c_res.ok
           /\ Len(c_res.val) = 1
           /\ c_res.val[1] \in Byte
           /\ c_res.val[1] \div 16 = 0
           /\ c_res.val[1] % 16 = pump_id_to_nibble(c_arg).val
    /\ (c_op = "parse_status_response" /\ Len(c_arg) = 1) =>
           /\ c_res.ok
           /\ c_res.val[1] \in 1 .. 16
           /\ c_res.val[2] = c_arg[1] \div 16
           /\ pump_id_to_nibble(c_res.val[1]).val = c_arg[1] % 16
           /\ c_res.val[2] * 16 + pump_id_to_nibble(c_res.val[1]).val = c_arg[1]

\* the byte 0x85 parsed as pump 5 with status 8, and the command for pump 5
\* is the byte 0x05
C11_Witness ==
    /\ c_op = "parse_status_response"
    /\ c_arg = << 133 >>
    /\ c_res = Ret(<< 5, 8 >>)
    /\ build_status_command(5) = Ret(<< 5 >>)

\* C12: parse_status_response raises ValueError for every byte string whose
\* length is not 1: none, two or more bytes are never parsed.
C12_ParseLengthError ==
    (c_op = "parse_status_response" /\ Len(c_arg) # 1) => c_res = Raise("ValueError")

\* a two-byte string whose first byte alone would parse was rejected
C12_Witness ==
    /\ c_op = "parse_status_response"
    /\ c_arg = << 133, 133 >>
    /\ ~c_res.ok
    /\ c_res.exc = "ValueError"

\* C13: the status code maps to the pump state the protocol table gives it:
\* 0x6 IDLE, 0x7 CALLING, 0x8 AUTHORIZED, 0x9 DISPENSING, 0xA and 0xB COMPLETE,
\* 0xC STOPPED, 0x0 and 0xD ERROR (the members of the scanner's enumeration
\* read as the states they stand for: DATA_ERROR as ERROR, OFF as IDLE, CALL
\* as CALLING, BUSY as DISPENSING, PEOT and FEOT as COMPLETE, STOP as STOPPED).
C13_StatusToState ==
    LET state_of(member) ==
            CASE member = "DATA_ERROR" -> "ERROR"
              [] member = "OFF"        -> "IDLE"
              [] member = "CALL"       -> "CALLING"
              [] member = "BUSY"       -> "DISPENSING"
              [] member = "PEOT"       -> "COMPLETE"
              [] member = "FEOT"       -> "COMPLETE"
              [] member = "STOP"       -> "STOPPED"
              [] OTHER                 -> member
        table == [c \in {0, 6, 7, 8, 9, 10, 11, 12, 13} |->
                    CASE c = 6  -> "IDLE"
                      [] c = 7  -> "CALLING"
                      [] c = 8  -> "AUTHORIZED"
                      [] c = 9  -> "DISPENSING"
                      [] c = 10 -> "COMPLETE"
                      [] c = 11 -> "COMPLETE"
                      [] c = 12 -> "STOPPED"
                      [] OTHER  -> "ERROR"]
    IN  (c_op = "status_code_to_enum" /\ c_arg \in DOMAIN table)
            => state_of(c_res.val) = table[c_arg]

-----------------------------------------------------------------------------
(* Properties of fix_price (SpecPrice).                                    *)

\* C14: for an integer price p, fix_price returns the tenth of p when p is a
\* multiple of 10 from 10000 to 99990 (the tenth then lies in 1000..9999),
\* and p itself otherwise: 8150 stays 8150, 81500 becomes 8150, 12345 stays
\* 12345; an absent price stays absent.
C14_FixPrice ==
    c_op = "fix_price" =>
        /\ c_arg = None => c_res = None
        /\ (c_arg # None /\ c_arg[2] = 0) =>
              LET p == c_arg[1]
              IN  /\ Len(c_res) = 1
                  /\ IF p \in 10000 .. 99990 /\ (p \div 10) * 10 = p
                     THEN c_res[1] * 10 = p /\ c_res[1] \in 1000 .. 9999
                     ELSE c_res[1] = p
                  /\ p = 8150  => c_res[1] = 8150
                  /\ p = 81500 => c_res[1] = 8150
                  /\ p = 12345 => c_res[1] = 12345

\* the five-digit price 81500 was corrected to 8150
C14_Witness ==
    /\ c_op = "fix_price"
    /\ c_arg = << 81500, 0 >>
    /\ c_res = Some(8150)

-----------------------------------------------------------------------------
(* Properties of the per-pump body of a tick (SpecAgg).                    *)

\* C15: the record of a DISPENSING pump whose cached price P is positive and
\* whose live value is L has total_amount = round(L, 2) * 1000 and
\* volume = round(total_amount / P, 3), P being the cached per-unit price.
C15_RealtimeWithPrice ==
    (/\ st_status = "DISPENSING"
     /\ item # None
     /\ last_live # None
     /\ meta # None
     /\ Truthy(meta[1].price_per_unit)
     /\ meta[1].price_per_unit[1] > 0)
    => LET rt == item[1].realtime[1]
           P  == meta[1].price_per_unit[1]
       IN  /\ rt.total_amount # None
           /\ rt.total_amount[1] \in { h * 10 : h \in RoundDiv(last_live[1], 100) }
           /\ rt.volume # None
           /\ rt.volume[1] \in RoundDiv(rt.total_amount[1] * 1000, P)

\* C16: the record of a DISPENSING pump with no cached price and live value
\* L has volume = round(L, 3) and no total_amount.
C16_RealtimeWithoutPrice ==
    (/\ st_status = "DISPENSING"
     /\ item # None
     /\ last_live # None
     /\ (meta = None \/ meta[1].price_per_unit = None))
    => LET rt == item[1].realtime[1]
       IN  /\ rt.total_amount = None
           /\ rt.volume # None
           /\ rt.volume[1] \in RoundDiv(last_live[1], 10)

\* the live value 3.5 was read for a pump without meta: volume 3.5, no amount
C16_Witness ==
    /\ st_status = "DISPENSING"
    /\ meta = None
    /\ live_val = [kind |-> "value", val |-> Some(35000)]
    /\ last_live = Some(35000)
    /\ item # None
    /\ item[1].realtime[1].volume = Some(3500)
    /\ item[1].realtime[1].total_amount = None

\* C21: a pass for a DISPENSING pump that reads a live value smaller than the
\* cached one, or reads one while none is cached, leaves the pump without a
\* cached receipt and with the value read as its cached live value.
C21_FreshSaleClearsLastTx ==
    [][ (/\ st_status' = "DISPENSING"
         /\ item' # None
         /\ live_val'.kind = "value"
         /\ live_val'.val # None
         /\ (last_live = None \/ live_val'.val[1] < last_live[1]))
        => (/\ last_tx' = None
            /\ last_live' = live_val'.val) ]_vars

\* C22: after a pass in which the pump is not DISPENSING no live value is
\* cached for it.
C22_LiveValueClearedOutsideDispensing ==
    (item # None /\ st_status \notin {"none", "DISPENSING"}) => last_live = None

\* C23: a pass for a COMPLETE or IDLE pump that reads a receipt appends the
\* receipt with its price put through fix_price as the record's transaction,
\* caches that record as the pump's receipt and sets the pump's meta to its
\* price and grade, whatever meta held; a pass that reads no receipt appends
\* no transaction and leaves the cached receipt and meta as they were.
C23_CompletedSaleRecorded ==
    [][ (item' # None /\ st_status' \in {"COMPLETE", "IDLE"})
        => IF tx_read'.val # None
           THEN LET p     == tx_read'.val[1]
                    fixed == IF p.price_per_unit = None THEN None
                             ELSE fix_price(<< p.price_per_unit[1], 0 >>)
                    txd   == [price_per_unit |-> fixed, grade |-> p.grade]
                IN  /\ item'[1].transaction = Some(txd)
                    /\ last_tx' = Some(txd)
                    /\ meta' = Some([price_per_unit |-> fixed, grade |-> p.grade])
           ELSE /\ item'[1].transaction = None
                /\ last_tx' = last_tx
                /\ meta' = meta ]_vars

\* the receipt priced 81500 of a COMPLETE pump was recorded, cached and taken
\* as meta with the price 8150
C23_Witness ==
    /\ st_status = "COMPLETE"
    /\ tx_read = [kind |-> "value", val |-> Some([price_per_unit |-> Some(81500), grade |-> 3])]
    /\ item # None
    /\ item[1].transaction = Some([price_per_unit |-> Some(8150), grade |-> 3])
    /\ last_tx = item[1].transaction
    /\ meta = Some([price_per_unit |-> Some(8150), grade |-> 3])

\* C24: in a pass for a pump that is neither COMPLETE nor IDLE, meta of the
\* pump is set exactly when it was absent and the receipt read has a price
\* that is neither absent nor zero, and then to the price put through
\* fix_price and the grade of the receipt; otherwise meta stays as it was.
C24_MetaRefreshOnlyWhenEmpty ==
    [][ (item' # None /\ st_status' \notin {"COMPLETE", "IDLE"})
        => IF /\ meta = None
              /\ tx_read'.val # None
              /\ tx_read'.val[1].price_per_unit \notin {None, Some(0)}
           THEN meta' = Some([price_per_unit |->
                                  fix_price(<< tx_read'.val[1].price_per_unit[1], 0 >>),
                              grade |-> tx_read'.val[1].grade])
           ELSE meta' = meta ]_vars

\* a pass for a CALLING pump read the receipt priced 3 while meta held the
\* price 8150 of an earlier receipt, and meta still holds it
C24_Witness ==
    /\ st_status = "CALLING"
    /\ item # None
    /\ tx_read = [kind |-> "value", val |-> Some([price_per_unit |-> Some(3), grade |-> 1])]
    /\ meta = Some([price_per_unit |-> Some(8150), grade |-> 3])

\* C26: a record carries a realtime sub-record only for a DISPENSING pump and
\* a transaction sub-record only for a COMPLETE or IDLE pump, never both, and
\* the record of a COMPLETE or IDLE pump for which a receipt is cached carries
\* a transaction sub-record.
C26_RecordSubRecords ==
    item # None =>
        /\ item[1].realtime # None => st_status = "DISPENSING"
        /\ item[1].transaction # None => st_status \in {"COMPLETE", "IDLE"}
        /\ ~(item[1].realtime # None /\ item[1].transaction # None)
        /\ (st_status \in {"COMPLETE", "IDLE"} /\ last_tx # None)
               => item[1].transaction # None

-----------------------------------------------------------------------------
(* Properties of the pump loop of a tick (SpecTick).                       *)

\* C25: a pass that raises never ends the tick: when the tick is over no
\* exception has reached the tick's except clause, every pump has had its
\* pass, every pump whose pass ran through or raised in a read (the live
\* read, a receipt read) has its record in the frame, once and in the order
\* of the loop, and hub.broadcast was called once.
C25_PumpFailureIsolated ==
    /\ t_exc = "none"
    /\ t_pc = "sleep" =>
          /\ t_bcasts = 1
          /\ \A i \in DOMAIN pump_statuses : t_out[pump_statuses[i]] # "unprocessed"
          /\ \A i \in DOMAIN pump_statuses :
                t_out[pump_statuses[i]] \in {"none", "live_read", "meta_read", "tx_read"}
                    => \E j \in DOMAIN frame_pumps : frame_pumps[j] = pump_statuses[i]
          /\ \A j, k \in DOMAIN frame_pumps :
                j < k => frame_pumps[j] < frame_pumps[k]

\* the first pump's pass raised on a missing field, the second pump's live
\* read raised, and the tick ended with the second and the third pump in the
\* frame and one broadcast
C25_Witness ==
    /\ t_pc = "sleep"
    /\ Len(pump_statuses) = 3
    /\ t_out[1] = "field"
    /\ t_out[2] = "live_read"
    /\ t_out[3] = "none"
    /\ frame_pumps = << 2, 3 >>
    /\ t_bcasts = 1

-----------------------------------------------------------------------------
(* Properties of the scan (SpecScan).                                      *)

\* C6: once the port is open the scan probes every address of the range and
\* ends with its summary: when main() is over, no exception has left the loop
\* and a command was written for each address lo..hi.
C6_ScanNeverAborts ==
    s_pc \in {"done", "raised"} =>
        /\ s_pc = "done"
        /\ s_exc = "none"
        /\ \A a \in address_range[1] .. address_range[2] :
               \E i \in DOMAIN bus : bus[i].op = "write" /\ bus[i].addr = a

\* C7: reading a one-byte reply whose echoed pump id differs from the address
\* being probed leaves the list of discovered pumps as it was: the probe adds
\* a record neither for the probed address nor for the echoed one.
C7_MismatchAddsNothing ==
    [][ (/\ s_pc = "read"
         /\ s_pc' = "reset"
         /\ Len(response') = 1
         /\ parse_status_response(response').val[1] # pump_address)
        => discovered_pumps' = discovered_pumps ]_vars

\* the probe of address 3 read a byte echoing address 7 with status CALL,
\* logged the mismatch and holds a record for neither
C7_Witness ==
    /\ s_pc = "reset"
    /\ pump_address = 3
    /\ response = << 7 * 16 + 7 >>
    /\ s_log[Len(s_log)] = LogEntry(3, "mismatch")
    /\ \A i \in DOMAIN discovered_pumps : discovered_pumps[i].address \notin {3, 7}

\* C8: on a bus whose reads all return no byte, the scan of lo..hi ends
\* having probed each address exactly once (one command written and one
\* read made for it), with no pump discovered and every address of the range
\* logged, in order, as not responding.
C8_SilentBusScan ==
    LET calls(op, a) == { i \in DOMAIN bus : bus[i].op = op /\ bus[i].addr = a }
        reads        == { i \in DOMAIN bus : bus[i].op = "read" }
    IN  (/\ s_pc \in {"done", "raised"}
         /\ reads # {}
         /\ \A i \in reads : bus[i].ok
         /\ \A i \in DOMAIN s_log : s_log[i].branch = "no_response")
        => /\ \A a \in address_range[1] .. address_range[2] :
                  /\ Cardinality(calls("write", a)) = 1
                  /\ Cardinality(calls("read", a)) = 1
           /\ discovered_pumps = <<>>
           /\ Len(s_log) = address_range[2] - address_range[1] + 1
           /\ \A i \in DOMAIN s_log : s_log[i].address = address_range[1] + i - 1

\* C19: the calls on the port are, for the addresses lo, lo+1, ... in turn,
\* write, flush, read, reset_input_buffer, in this order with nothing in
\* between: a write is only ever issued as the first call or right after the
\* previous address's input buffer was cleared, itself right after that
\* address's read returned or raised; only a failed write, flush or reset or
\* the end of the range is followed by something else, the close.
C19_BusCallOrder ==
    LET cycle == << "write", "flush", "read", "reset_input_buffer" >>
        n     == IF bus # <<>> /\ bus[Len(bus)].op = "close" THEN Len(bus) - 1 ELSE Len(bus)
    IN  /\ \A i \in 1 .. n :
              /\ bus[i].op = cycle[((i - 1) % 4) + 1]
              /\ bus[i].addr = address_range[1] + ((i - 1) \div 4)
              /\ bus[i].addr <= address_range[2]
              /\ (i < n) => (bus[i].ok \/ bus[i].op = "read")
        /\ \A i \in 2 .. n :
              bus[i].op = "write" =>
                  /\ bus[i - 1].op = "reset_input_buffer" /\ bus[i - 1].ok
                  /\ bus[i - 2].op = "read"
                  /\ bus[i - 1].addr = bus[i].addr - 1

\* the read at the first address raised, the buffer was cleared, and the
\* second address's command has been written
C19_Witness ==
    /\ Len(bus) >= 5
    /\ bus[3].op = "read" /\ ~bus[3].ok
    /\ bus[4].op = "reset_input_buffer"
    /\ bus[5].op = "write" /\ bus[5].addr = address_range[1] + 1
    /\ s_log[1].branch = "read_error"

\* C20: a one-byte reply that echoes the address being probed adds the pump
\* to the discovered list, with the reply as its raw frame, whichever of the
\* 16 status codes the reply carries.
C20_EchoAddsPump ==
    (/\ s_pc = "reset"
     /\ Len(response) = 1
     /\ parse_status_response(response).val[1] = pump_address)
    => /\ discovered_pumps # <<>>
       /\ discovered_pumps[Len(discovered_pumps)].address = pump_address
       /\ discovered_pumps[Len(discovered_pumps)].response_raw = response
       /\ discovered_pumps[Len(discovered_pumps)].status_code = response[1] \div 16

\* C28: from the opening of the port to the finally clause the port is open
\* and no close has been issued; when main() is over, with its summary or
\* with an exception that left the loop (raised by building the command, by
\* the write, the flush or the reset), the port has been closed by exactly
\* one close; and a close is never followed by another call on the port.
C28_PortClosedOnce ==
    LET closes == { i \in DOMAIN bus : bus[i].op = "close" }
    IN  /\ s_pc \in {"for", "write", "flush", "read", "reset", "finally"} =>
               ser_open /\ closes = {}
        /\ s_pc \in {"done", "raised"} =>
               ~ser_open /\ Cardinality(closes) = 1
        /\ \A i \in closes : i = Len(bus)
        /\ s_pc = "raised" => s_exc # "none"

\* the command for address 17 could not be built after address 16 had been
\* probed: the exception left main() and the port was closed by the last call
C28_Witness ==
    /\ s_pc = "raised"
    /\ s_exc = "ValueError"
    /\ pump_address = 17
    /\ ~ser_open
    /\ Len(bus) >= 2
    /\ bus[Len(bus)].op = "close"
    /\ bus[Len(bus) - 1].op = "reset_input_buffer"

\* C30: every record of the discovered list is for an address of the range
\* up to the one being probed, for which a read has returned; the addresses
\* of the list increase strictly; and the pump id that the stored reply byte
\* echoes is the record's address.
C30_DiscoveredListShape ==
    \A i \in DOMAIN discovered_pumps :
        LET d == discovered_pumps[i]
        IN  /\ d.address \in address_range[1] .. pump_address
            /\ \E j \in DOMAIN bus :
                   bus[j].op = "read" /\ bus[j].ok /\ bus[j].addr = d.address
            /\ Len(d.response_raw) = 1
            /\ parse_status_response(d.response_raw).val[1] = d.address
            /\ \A k \in DOMAIN discovered_pumps :
                   i < k => d.address < discovered_pumps[k].address

\* the scan of 15..16 found both pumps, the second one echoing address 16 as
\* nibble 0: both are recorded, in order
C30_Witness ==
    /\ address_range = << 15, 16 >>
    /\ Len(discovered_pumps) = 2
    /\ discovered_pumps[1].address = 15
    /\ discovered_pumps[2].address = 16
    /\ discovered_pumps[2].response_raw = << 6 * 16 + 0 >>

-----------------------------------------------------------------------------
(* Properties of the hub and the tick loops (SpecHub).                     *)

\* C1: in one TICK interval one broadcast is started, however many
\* subscribers are connected.
C1_OneBroadcastPerTick ==
    bcasts_in_tick <= 1

\* C2: at most one broadcast is suspended awaiting a delivery: no tick starts
\* while an earlier tick's broadcast is in flight.
C2_OneTickInProgress ==
    Cardinality({ w \in WS : h_pc[w] = "send" }) <= 1

\* C3: a broadcast attempts every socket of the registry it copied, delivers
\* to each one whose send does not raise, marks the others, never raises to
\* the tick, and removes the marked ones from the registry, so a broadcast
\* started afterwards does not hold them.
C3_BroadcastIsolatesFailures ==
    /\ returned.sent \cup Range(returned.failed) = Range(returned.targets)
    /\ returned.sent \cap Range(returned.failed) = {}
    /\ Range(returned.failed) \subseteq broken
    /\ \A t \in Range(returned.targets) : t \notin broken => t \in returned.sent
    /\ Range(returned.failed) \cap Range(clients) = {}
    /\ \A w \in WS : tick_exc[w] # "send"
    /\ \A w \in WS :
          h_pc[w] = "send" =>
              /\ Range(b_failed[w]) \subseteq broken
              /\ left_mid[w] \/ Range(b_targets[w]) \subseteq Range(clients)

\* a broadcast returned having delivered to one socket and removed another
\* whose send raised, and a broadcast started since (no socket has joined or
\* left during it) is in flight to the remaining one
C3_Witness ==
    /\ returned.sent # {}
    /\ returned.failed # <<>>
    /\ \E w \in WS :
          /\ h_pc[w] = "send"
          /\ ~left_mid[w]
          /\ late[w] = {}
          /\ b_targets[w] # <<>>
          /\ Range(b_targets[w]) \cap Range(returned.failed) = {}

\* C4: a socket that joins while a broadcast is suspended is held by the copy
\* of every broadcast started after it joined, and a broadcast that lost a
\* target from the registry while suspended still attempts each of its
\* targets in turn and delivers to each one whose send does not raise.
C4_JoinLeaveMidBroadcast ==
    /\ \A w \in WS :
          h_pc[w] = "send" =>
              /\ Range(clients) \subseteq Range(b_targets[w]) \cup late[w]
              /\ b_idx[w] \in 1 .. Len(b_targets[w])
              /\ b_sent[w] \cup Range(b_failed[w])
                     = { b_targets[w][j] : j \in 1 .. (b_idx[w] - 1) }
    /\ returned.left_mid =>
          /\ returned.sent \cup Range(returned.failed) = Range(returned.targets)
          /\ Range(returned.targets) \ broken \subseteq returned.sent
    /\ returned.late \cap Range(returned.targets) = {}

\* a broadcast went on delivering after a target left the registry, and the
\* broadcast that returned last had a socket join while it was suspended
C4_Witness ==
    /\ returned.late # {}
    /\ \E w \in WS :
          /\ h_pc[w] = "send"
          /\ left_mid[w]
          /\ b_sent[w] # {}

\* C5: an exception raised by a step of a tick is caught inside the while
\* loop: it never ends the handler, which goes on to asyncio.sleep(TICK) and
\* starts its next tick when the interval has elapsed.
C5_TickLoopSurvives ==
    /\ \A w \in WS : h_exit[w] # "exception"
    /\ \A w \in WS :
          tick_exc[w] # "none" =>
              \/ h_pc[w] = "sleep"
              \/ h_pc[w] = "closed" /\ h_exit[w] = "cancelled"
    /\ \A w \in WS :
          (tick_exc[w] # "none" /\ h_pc[w] = "sleep" /\ slept[w] /\ nframes < MaxFrames)
              => ENABLED Wake(w)

\* a tick raised, its handler slept through the interval and is about to
\* start its next tick
C5_Witness ==
    \E w \in WS :
        /\ tick_exc[w] = "frame"
        /\ h_pc[w] = "sleep"
        /\ slept[w]
        /\ h_exit[w] = "none"

\* C17: the ticks yield one snapshot each: a snapshot is built only when
\* none has been built since the TICK interval began, so that N intervals
\* yield N snapshots.
C17_OneSnapshotPerTick ==
    [][ nframes' # nframes => bcasts_in_tick = 0 ]_vars

\* C18: Hub.disconnect removes the socket and nothing else, and a second
\* call, or a call for a socket that is not registered, leaves the registry
\* as it is: for every socket and every registry the hub reaches.
C18_LeaveIdempotent ==
    \A ws \in WS :
        LET once == HubDisconnect(clients, ws)
        IN  /\ ws \notin Range(once)
            /\ Range(once) = Range(clients) \ {ws}
            /\ ws \in Range(clients) =>
                  \E k \in DOMAIN clients :
                      /\ clients[k] = ws
                      /\ once = SubSeq(clients, 1, k - 1)
                                   \o SubSeq(clients, k + 1, Len(clients))
            /\ HubDisconnect(once, ws) = once
            /\ ws \notin Range(clients) => once = clients

\* a cancelled handler's socket was disconnected by its finally clause and
\* by the batch removal of a broadcast that failed to send to it, and another
\* socket is still registered
C18_Witness ==
    /\ clients # <<>>
    /\ \E ws \in Range(returned.failed) :
          /\ h_exit[ws] = "cancelled"
          /\ ws \notin Range(clients)

\* C27: a handler is running its tick loop only while its socket is
\* registered: the handlers suspended in a send or in the sleep are never
\* more than the registered sockets, and each of them is registered.
C27_RemovedHandlerStops ==
    LET running == { w \in WS : h_pc[w] \in {"send", "sleep"} }
    IN  /\ Cardinality(running) <= Len(clients)
        /\ \A w \in running : w \in Range(clients)

\* C29: the registry never holds a socket twice, and the step in which a
\* broadcast returns removes from the registry only sockets whose send failed
\* in that broadcast (sockets of its copy): a socket that joined while the
\* broadcast was suspended, and has not left, is still registered after it.
C29_BatchRemovalOnlyFailed ==
    [][ /\ \A i, j \in DOMAIN clients' : i # j => clients'[i] # clients'[j]
        /\ \A w \in WS :
              (h_pc[w] = "send" /\ h_pc'[w] = "sleep") =>
                  /\ Range(clients) \ Range(clients') \subseteq Range(returned'.failed)
                  /\ Range(returned'.failed) \subseteq Range(b_targets[w])
                  /\ (late[w] \cap Range(clients)) \subseteq Range(clients') ]_vars

\* a broadcast returned having removed a socket whose send failed, and the
\* socket that joined while it was suspended is registered
C29_Witness ==
    /\ returned.failed # <<>>
    /\ returned.late # {}
    /\ returned.late \subseteq Range(clients)
    /\ Range(returned.failed) \cap Range(clients) = {}

=============================================================================
